---- MODULE Spec2Model ----
(***************************************************************************)
(* cfgenerator: cmd/cfgenerator/main.go.                                   *)
(*                                                                         *)
(* main parses the command line into cfg, defaults the output list and     *)
(* calls run; run looks the interpreter up, opens the input, generates the *)
(* content, opens every output, writes the content to every output and     *)
(* returns, at which point its deferred Close calls run.  The packages     *)
(* interpreter, file and internal are not part of main.go; their           *)
(* behaviour is taken from the design document (sections 4.1 to 4.3, 6).   *)
(***************************************************************************)
EXTENDS Integers, Sequences, FiniteSets, TLC

VARIABLES
    argv,       \* the command line flags still to be read, as (flag, value) pairs
    argi,       \* position of flag.Parse in argv
    cfg,        \* main's cfg struct: InterpreterName, In, Outs
    volumes,    \* flag.Args(): the positional volume paths
    pc,         \* position of the process
    runtime,    \* run: the interpreter found by the lookup
    source,     \* Generate: the template read from the input
    vi,         \* Collect: index of the next volume path
    mapping,    \* Collect: the variable mapping built so far
    genOut,     \* Generate: its string result
    genErr,     \* Generate: its error result
    content,    \* run: the rendered content
    outputs,    \* run: the outputs slice, one handle per opened output
    oi,         \* run: index of the open loop
    wi,         \* run: index of the write loop
    deferred,   \* run: the stack of deferred Close calls
    nextFd,     \* the descriptor the next opened file receives
    err,        \* the error run returns
    io,         \* every file operation performed so far, in order
    dest,       \* what each output destination holds
    stderr,     \* the lines printed on standard error
    exitCode    \* the exit code of the process, once it has exited

vars == <<argv, argi, cfg, volumes, pc, runtime, source, vi, mapping, genOut,
          genErr, content, outputs, oi, wi, deferred, nextFd, err, io, dest,
          stderr, exitCode>>

\* Bounds of the model: the number of -out flags and of volume paths.
MaxOuts == 2
MaxVolumes == 2

-----------------------------------------------------------------------------
(* The environment: interpreter names, and the files of the machine.       *)

InterpreterNames == {"plain", "jsonnet", "yaml"}

InputPaths == {"/t/hello.tpl", "/t/broken", "/t/none"}

OutputPaths == {"-", "/out/a", "/ro/b"}

VolumePaths == {"/cm", "/sec", "/x/NAME", "/nope"}

Lit(s) == [kind |-> "lit", s |-> s]
Ref(n) == [kind |-> "ref", s |-> n]

\* A template: the language it is written in, and its text as literals and
\* variable references.
Template(lang, toks) == [lang |-> lang, toks |-> toks]

\* What reading each input yields; "-" is standard input.
InputContent(p) ==
    CASE p = "-"            -> Template("jsonnet", <<Lit("{port: "), Ref("PORT"), Lit("}")>>)
      [] p = "/t/hello.tpl" -> Template("plain", <<Lit("Hello "), Ref("NAME")>>)
      [] OTHER              -> Template("none", <<Lit("{{")>>)

InputExists(p) == p \in {"-", "/t/hello.tpl", "/t/broken"}

Entry(name, type, data) == [name |-> name, type |-> type, data |-> data]

\* The volume paths on disk: two flat directories (one with a sub-directory),
\* one regular file, and one path that does not exist.
VolumeKind(p) ==
    CASE p \in {"/cm", "/sec"} -> "dir"
      [] p = "/x/NAME"         -> "file"
      [] OTHER                 -> "missing"

\* The entries of a directory, sorted by name as a directory listing is.
DirEntries(p) ==
    CASE p = "/cm"  -> <<Entry("NAME", "file", "World"), Entry("PORT", "file", "8080"),
                         Entry("sub", "dir", "")>>
      [] p = "/sec" -> <<Entry("PASS", "file", "s3cret"), Entry("PORT", "file", "9090")>>
      [] OTHER      -> <<>>

FileData(p) == IF p = "/x/NAME" THEN "Bob" ELSE ""

BaseName(p) == IF p = "/x/NAME" THEN "NAME" ELSE p

\* An output path can be opened unless its directory is read-only.
OutputOpenable(p) == p # "/ro/b"

Nil == [kind |-> "nil", arg |-> ""]
Error(kind, arg) == [kind |-> kind, arg |-> arg]

Handle(path, fd) == [path |-> path, fd |-> fd]
NoHandle == Handle("", -1)

\* One file operation: data is the text handed to a write, n the number of
\* its chunks that reached the destination.
Event(op, path, fd, data, n, ok) ==
    [op |-> op, path |-> path, fd |-> fd, data |-> data, n |-> n, ok |-> ok]

-----------------------------------------------------------------------------
(* package interpreter: the registry and the two render strategies.        *)

Registry == {"plain", "jsonnet"}

Get(name) == [runtime |-> name, found |-> name \in Registry]

Refs(tpl) == {tpl.toks[i].s : i \in {j \in 1..Len(tpl.toks) : tpl.toks[j].kind = "ref"}}

\* The plain interpreter substitutes the value; jsonnet manifests an external
\* variable as a JSON string.
RenderTok(interp, tok, m) ==
    IF tok.kind = "lit" THEN tok.s
    ELSE IF interp = "jsonnet" THEN "\"" \o m[tok.s] \o "\""
    ELSE m[tok.s]

Render(interp, tpl, m) ==
    IF tpl.lang # interp
    THEN [ok |-> FALSE, text |-> <<>>, why |-> "syntax"]
    ELSE IF \E n \in Refs(tpl) : n \notin DOMAIN m
    THEN [ok |-> FALSE, text |-> <<>>, why |-> "undefined variable"]
    ELSE [ok |-> TRUE,
          text |-> [i \in 1..Len(tpl.toks) |-> RenderTok(interp, tpl.toks[i], m)],
          why |-> ""]

-----------------------------------------------------------------------------
(* package internal: the volume collector.                                 *)

IsRegular(e) == e.type = "file"

\* The (name, content) pairs one volume path contributes, in reading order.
Contributes(p) ==
    IF VolumeKind(p) = "file"
    THEN <<Entry(BaseName(p), "file", FileData(p))>>
    ELSE SelectSeq(DirEntries(p), IsRegular)

\* Insert with a pair never overwriting an earlier one of the same name.
RECURSIVE InsertKeepFirst(_, _)
InsertKeepFirst(m, es) ==
    IF es = <<>> THEN m
    ELSE LET e == Head(es)
             m1 == [n \in DOMAIN m \cup {e.name} |-> IF n \in DOMAIN m THEN m[n] ELSE e.data]
         IN  InsertKeepFirst(m1, Tail(es))

\* Inserting the pairs into the mapping, a later pair overwriting an earlier one.
RECURSIVE Insert(_, _)
Insert(m, es) ==
    IF es = <<>> THEN m
    ELSE LET e == Head(es)
             m1 == [n \in DOMAIN m \cup {e.name} |-> IF n = e.name THEN e.data ELSE m[n]]
         IN  Insert(m1, Tail(es))

ReadEvents(p) ==
    LET es == Contributes(p)
    IN  [i \in 1..Len(es) |->
            Event("read", IF VolumeKind(p) = "file" THEN p ELSE p \o "/" \o es[i].name,
                  -1, <<>>, 0, TRUE)]

-----------------------------------------------------------------------------
(* package file: opening the input and the outputs.                        *)

OpenInput(p, fd) ==
    IF p = "-" THEN [ok |-> TRUE, h |-> Handle("-", 0)]
    ELSE IF InputExists(p) THEN [ok |-> TRUE, h |-> Handle(p, fd)]
    ELSE [ok |-> FALSE, h |-> NoHandle]

OpenOutput(p, fd) ==
    IF p = "-" THEN [ok |-> TRUE, h |-> Handle("-", 1)]
    ELSE IF OutputOpenable(p) THEN [ok |-> TRUE, h |-> Handle(p, fd)]
    ELSE [ok |-> FALSE, h |-> NoHandle]

\* The descriptor counter after an open: the standard streams use no new one.
FdAfter(p, ok, fd) == IF ok /\ p # "-" THEN fd + 1 ELSE fd

\* What a destination holds after k chunks of text were written through a
\* handle at offset zero: a stream is appended to, a file overwritten in place.
Written(p, old, text, k) ==
    IF p = "-" THEN old \o SubSeq(text, 1, k)
    ELSE SubSeq(text, 1, k) \o SubSeq(old, k + 1, Len(old))

\* The number of chunks a write may deliver: all of them, or fewer on failure.
WriteOutcomes(text) == {0, Len(text)} \cup (IF Len(text) > 1 THEN {1} ELSE {})

-----------------------------------------------------------------------------
(* main: the command line.                                                 *)

Flag(name, value) == [flag |-> name, value |-> value]

\* Set with the value put in front of the list instead of behind it.
SetPrepend(s, value) == <<value>> \o s

\* stringsFlag.Set: each occurrence of the flag appends its value.
Set(s, value) == Append(s, value)

OutLists == UNION {[1..n -> OutputPaths] : n \in 0..MaxOuts}

VolumeLists == UNION {[1..n -> VolumePaths] : n \in 0..MaxVolumes}

Optional(S) == {<<>>} \cup {<<x>> : x \in S}

\* A command line: at most one -interpreter, at most one -in, the -out flags.
CommandLine(ip, inp, os) ==
    [i \in 1..Len(ip) |-> Flag("interpreter", ip[i])]
    \o [i \in 1..Len(inp) |-> Flag("in", inp[i])]
    \o [i \in 1..Len(os) |-> Flag("out", os[i])]

\* What the output destinations hold before the run: one file exists already.
InitialDest == [p \in OutputPaths |-> IF p = "/out/a" THEN <<"stale">> ELSE <<>>]

Init ==
    /\ \E ip \in Optional(InterpreterNames), inp \in Optional(InputPaths), os \in OutLists :
          argv = CommandLine(ip, inp, os)
    /\ volumes \in VolumeLists
    /\ argi = 1
    /\ cfg = [InterpreterName |-> "jsonnet", In |-> "-", Outs |-> <<>>]
    /\ pc = "parse"
    /\ runtime = ""
    /\ source = Template("none", <<>>)
    /\ vi = 1
    /\ mapping = <<>>
    /\ genOut = <<>>
    /\ genErr = Nil
    /\ content = <<>>
    /\ outputs = <<>>
    /\ oi = 1
    /\ wi = 1
    /\ deferred = <<>>
    /\ nextFd = 3
    /\ err = Nil
    /\ io = <<>>
    /\ dest = InitialDest
    /\ stderr = <<>>
    /\ exitCode = -1

\* flag.Parse reading one flag of the command line.
FlagParse ==
    /\ pc = "parse"
    /\ argi <= Len(argv)
    /\ LET a == argv[argi]
       IN  cfg' = CASE a.flag = "interpreter" -> [cfg EXCEPT !.InterpreterName = a.value]
                    [] a.flag = "in"          -> [cfg EXCEPT !.In = a.value]
                    [] OTHER                  -> [cfg EXCEPT !.Outs = Set(cfg.Outs, a.value)]
    /\ argi' = argi + 1
    /\ UNCHANGED <<argv, volumes, pc, runtime, source, vi, mapping, genOut, genErr,
                   content, outputs, oi, wi, deferred, nextFd, err, io, dest, stderr,
                   exitCode>>

\* main after flag.Parse: the output list defaults to standard output, and run
\* is called.
DefaultOuts ==
    /\ pc = "parse"
    /\ argi > Len(argv)
    /\ cfg' = IF Len(cfg.Outs) = 0 THEN [cfg EXCEPT !.Outs = Append(cfg.Outs, "-")] ELSE cfg
    /\ pc' = "lookup"
    /\ UNCHANGED <<argv, argi, volumes, runtime, source, vi, mapping, genOut, genErr,
                   content, outputs, oi, wi, deferred, nextFd, err, io, dest, stderr,
                   exitCode>>

-----------------------------------------------------------------------------
(* run                                                                     *)

\* Lookup without the return: the error is set and run goes on.
LookupNoReturn ==
    /\ pc = "lookup"
    /\ LET r == Get(cfg.InterpreterName)
       IN  /\ err' = IF ~r.found
                     THEN Error("unsupported interpreter", cfg.InterpreterName)
                     ELSE err
           /\ runtime' = r.runtime
           /\ pc' = "openInput"
    /\ UNCHANGED <<argv, argi, cfg, volumes, source, vi, mapping, genOut, genErr,
                   content, outputs, oi, wi, deferred, nextFd, io, dest, stderr, exitCode>>

\* run: the interpreter lookup.
Lookup ==
    /\ pc = "lookup"
    /\ LET r == Get(cfg.InterpreterName)
       IN  IF ~r.found
           THEN /\ err' = Error("unsupported interpreter", cfg.InterpreterName)
                /\ pc' = "return"
                /\ UNCHANGED runtime
           ELSE /\ runtime' = r.runtime
                /\ pc' = "openInput"
                /\ UNCHANGED err
    /\ UNCHANGED <<argv, argi, cfg, volumes, source, vi, mapping, genOut, genErr,
                   content, outputs, oi, wi, deferred, nextFd, io, dest, stderr, exitCode>>

\* run: opening the input and deferring its Close.
OpenInputStep ==
    /\ pc = "openInput"
    /\ LET r == OpenInput(cfg.In, nextFd)
       IN  /\ io' = Append(io, Event("open_in", cfg.In, r.h.fd, <<>>, 0, r.ok))
           /\ nextFd' = FdAfter(cfg.In, r.ok, nextFd)
           /\ IF ~r.ok
              THEN /\ err' = Error("can't open input file", cfg.In)
                   /\ pc' = "return"
                   /\ UNCHANGED deferred
              ELSE /\ deferred' = Append(deferred, r.h)
                   /\ pc' = "generate"
                   /\ UNCHANGED err
    /\ UNCHANGED <<argv, argi, cfg, volumes, runtime, source, vi, mapping, genOut,
                   genErr, content, outputs, oi, wi, dest, stderr, exitCode>>

\* Generate, step 1: the input is read whole.
GenerateRead ==
    /\ pc = "generate"
    /\ source' = InputContent(cfg.In)
    /\ io' = Append(io, Event("read", cfg.In, deferred[1].fd, <<>>, 0, TRUE))
    /\ vi' = 1
    /\ mapping' = <<>>
    /\ pc' = "collect"
    /\ UNCHANGED <<argv, argi, cfg, volumes, runtime, genOut, genErr, content, outputs,
                   oi, wi, deferred, nextFd, err, dest, stderr, exitCode>>

\* Collect, one volume path: stat it, fail if it is missing, else read it.
CollectPath ==
    /\ pc = "collect"
    /\ vi <= Len(volumes)
    /\ LET p == volumes[vi]
       IN  IF VolumeKind(p) = "missing"
           THEN /\ io' = Append(io, Event("stat", p, -1, <<>>, 0, FALSE))
                /\ genErr' = Error("collect", p)
                /\ genOut' = <<>>
                /\ pc' = "generated"
                /\ UNCHANGED <<vi, mapping>>
           ELSE /\ io' = Append(io, Event("stat", p, -1, <<>>, 0, TRUE)) \o ReadEvents(p)
                /\ mapping' = Insert(mapping, Contributes(p))
                /\ vi' = vi + 1
                /\ UNCHANGED <<genErr, genOut, pc>>
    /\ UNCHANGED <<argv, argi, cfg, volumes, runtime, source, content, outputs, oi, wi,
                   deferred, nextFd, err, dest, stderr, exitCode>>

\* Generate, step 3: the interpreter renders the source with the whole mapping.
GenerateRender ==
    /\ pc = "collect"
    /\ vi > Len(volumes)
    /\ LET r == Render(runtime, source, mapping)
       IN  /\ genOut' = r.text
           /\ genErr' = IF r.ok THEN Nil ELSE Error("render", r.why)
    /\ pc' = "generated"
    /\ UNCHANGED <<argv, argi, cfg, volumes, runtime, source, vi, mapping, content,
                   outputs, oi, wi, deferred, nextFd, err, io, dest, stderr, exitCode>>

\* GenerateCheck with the error of Generate dropped.
GenerateCheckIgnoreErr ==
    /\ pc = "generated"
    /\ content' = genOut
    /\ pc' = "openOutputs"
    /\ oi' = 1
    /\ outputs' = [i \in 1..Len(cfg.Outs) |-> NoHandle]
    /\ UNCHANGED <<argv, argi, cfg, volumes, runtime, source, vi, mapping, genOut,
                   genErr, wi, deferred, nextFd, err, io, dest, stderr, exitCode>>

\* run: the result of Generate is checked before any output is opened.
GenerateCheck ==
    /\ pc = "generated"
    /\ content' = genOut
    /\ IF genErr # Nil
       THEN /\ err' = Error("can't generate content", genErr.arg)
            /\ pc' = "return"
       ELSE /\ pc' = "openOutputs"
            /\ UNCHANGED err
    /\ oi' = 1
    /\ outputs' = [i \in 1..Len(cfg.Outs) |-> NoHandle]
    /\ UNCHANGED <<argv, argi, cfg, volumes, runtime, source, vi, mapping, genOut,
                   genErr, wi, deferred, nextFd, io, dest, stderr, exitCode>>

\* The open loop writing to each output as soon as it is opened.
OpenOutputStepEager ==
    /\ pc = "openOutputs"
    /\ oi <= Len(cfg.Outs)
    /\ LET p == cfg.Outs[oi]
           r == OpenOutput(p, nextFd)
       IN  /\ nextFd' = FdAfter(p, r.ok, nextFd)
           /\ IF ~r.ok
              THEN /\ io' = Append(io, Event("open_out", p, r.h.fd, <<>>, 0, r.ok))
                   /\ err' = Error("can't open output file", p)
                   /\ pc' = "return"
                   /\ UNCHANGED <<deferred, outputs, oi, dest>>
              ELSE /\ io' = io \o <<Event("open_out", p, r.h.fd, <<>>, 0, r.ok),
                                    Event("write", p, r.h.fd, content, Len(content), TRUE)>>
                   /\ deferred' = Append(deferred, r.h)
                   /\ outputs' = [outputs EXCEPT ![oi] = r.h]
                   /\ oi' = oi + 1
                   /\ dest' = [dest EXCEPT ![p] =
                                  Written(p, IF p = "-" THEN @ ELSE <<>>, content, Len(content))]
                   /\ UNCHANGED <<err, pc>>
    /\ UNCHANGED <<argv, argi, cfg, volumes, runtime, source, vi, mapping, genOut,
                   genErr, content, wi, stderr, exitCode>>

\* The open loop left with break instead of return when an open fails: the
\* outputs opened so far are written.
OpenOutputStepBreak ==
    /\ pc = "openOutputs"
    /\ oi <= Len(cfg.Outs)
    /\ LET p == cfg.Outs[oi]
           r == OpenOutput(p, nextFd)
       IN  /\ io' = Append(io, Event("open_out", p, r.h.fd, <<>>, 0, r.ok))
           /\ nextFd' = FdAfter(p, r.ok, nextFd)
           /\ IF ~r.ok
              THEN /\ err' = Error("can't open output file", p)
                   /\ outputs' = SubSeq(outputs, 1, oi - 1)
                   /\ pc' = "write"
                   /\ UNCHANGED <<deferred, oi, dest>>
              ELSE /\ deferred' = Append(deferred, r.h)
                   /\ outputs' = [outputs EXCEPT ![oi] = r.h]
                   /\ oi' = oi + 1
                   /\ dest' = IF p = "-" THEN dest ELSE [dest EXCEPT ![p] = <<>>]
                   /\ UNCHANGED <<err, pc>>
    /\ UNCHANGED <<argv, argi, cfg, volumes, runtime, source, vi, mapping, genOut,
                   genErr, content, wi, stderr, exitCode>>

\* run: one round of the open loop.
OpenOutputStep ==
    /\ pc = "openOutputs"
    /\ oi <= Len(cfg.Outs)
    /\ LET p == cfg.Outs[oi]
           r == OpenOutput(p, nextFd)
       IN  /\ io' = Append(io, Event("open_out", p, r.h.fd, <<>>, 0, r.ok))
           /\ nextFd' = FdAfter(p, r.ok, nextFd)
           /\ IF ~r.ok
              THEN /\ err' = Error("can't open output file", p)
                   /\ pc' = "return"
                   /\ UNCHANGED <<deferred, outputs, oi, dest>>
              ELSE /\ deferred' = Append(deferred, r.h)
                   /\ outputs' = [outputs EXCEPT ![oi] = r.h]
                   /\ oi' = oi + 1
                   /\ dest' = IF p = "-" THEN dest ELSE [dest EXCEPT ![p] = <<>>]
                   /\ UNCHANGED <<err, pc>>
    /\ UNCHANGED <<argv, argi, cfg, volumes, runtime, source, vi, mapping, genOut,
                   genErr, content, wi, stderr, exitCode>>

\* run: the open loop is over, the write loop starts.
OpenOutputsDone ==
    /\ pc = "openOutputs"
    /\ oi > Len(cfg.Outs)
    /\ wi' = 1
    /\ pc' = "write"
    /\ UNCHANGED <<argv, argi, cfg, volumes, runtime, source, vi, mapping, genOut,
                   genErr, content, outputs, oi, deferred, nextFd, err, io, dest,
                   stderr, exitCode>>

\* The write loop writing every round to the first output.
WriteStepFirstOnly ==
    /\ pc = "write"
    /\ wi <= Len(outputs)
    /\ \E k \in WriteOutcomes(content) :
          LET h == outputs[1]
          IN  /\ io' = Append(io, Event("write", h.path, h.fd, content, k, k = Len(content)))
              /\ dest' = [dest EXCEPT ![h.path] = Written(h.path, @, content, k)]
    /\ wi' = wi + 1
    /\ UNCHANGED <<argv, argi, cfg, volumes, pc, runtime, source, vi, mapping, genOut,
                   genErr, content, outputs, oi, deferred, nextFd, err, stderr, exitCode>>

\* The write loop returning the error of the first write that fails.
WriteStepAbortOnError ==
    /\ pc = "write"
    /\ wi <= Len(outputs)
    /\ \E k \in WriteOutcomes(content) :
          LET h == outputs[wi]
          IN  /\ io' = Append(io, Event("write", h.path, h.fd, content, k, k = Len(content)))
              /\ dest' = [dest EXCEPT ![h.path] = Written(h.path, @, content, k)]
              /\ IF k = Len(content)
                 THEN UNCHANGED <<err, pc>>
                 ELSE /\ err' = Error("can't write output file", h.path)
                      /\ pc' = "return"
    /\ wi' = wi + 1
    /\ UNCHANGED <<argv, argi, cfg, volumes, runtime, source, vi, mapping, genOut,
                   genErr, content, outputs, oi, deferred, nextFd, stderr, exitCode>>

\* run: one round of the write loop; the result of fmt.Fprint is dropped.
WriteStep ==
    /\ pc = "write"
    /\ wi <= Len(outputs)
    /\ \E k \in WriteOutcomes(content) :
          LET h == outputs[wi]
          IN  /\ io' = Append(io, Event("write", h.path, h.fd, content, k, k = Len(content)))
              /\ dest' = [dest EXCEPT ![h.path] = Written(h.path, @, content, k)]
    /\ wi' = wi + 1
    /\ UNCHANGED <<argv, argi, cfg, volumes, pc, runtime, source, vi, mapping, genOut,
                   genErr, content, outputs, oi, deferred, nextFd, err, stderr, exitCode>>

\* run: the write loop is over, run returns nil.
WriteDone ==
    /\ pc = "write"
    /\ wi > Len(outputs)
    /\ err' = Nil
    /\ pc' = "return"
    /\ UNCHANGED <<argv, argi, cfg, volumes, runtime, source, vi, mapping, genOut,
                   genErr, content, outputs, oi, wi, deferred, nextFd, io, dest, stderr,
                   exitCode>>

\* The deferred Close calls, last deferred first; closing a stream a second
\* time fails and the failure is dropped.
CloseEvents(ds) ==
    LET n == Len(ds)
        rev == [i \in 1..n |-> ds[n + 1 - i]]
    IN  [i \in 1..n |->
            Event("close", rev[i].path, rev[i].fd, <<>>, 0,
                  \A j \in 1..(i - 1) : rev[j].fd # rev[i].fd)]

\* Return with the files closed at the end of the function body only: an early
\* return closes nothing.
ReturnLeak ==
    /\ pc = "return"
    /\ io' = IF err = Nil THEN io \o CloseEvents(deferred) ELSE io
    /\ deferred' = <<>>
    /\ pc' = "main"
    /\ UNCHANGED <<argv, argi, cfg, volumes, runtime, source, vi, mapping, genOut,
                   genErr, content, outputs, oi, wi, nextFd, err, dest, stderr, exitCode>>

\* run returns: its deferred calls run.
Return ==
    /\ pc = "return"
    /\ io' = io \o CloseEvents(deferred)
    /\ deferred' = <<>>
    /\ pc' = "main"
    /\ UNCHANGED <<argv, argi, cfg, volumes, runtime, source, vi, mapping, genOut,
                   genErr, content, outputs, oi, wi, nextFd, err, dest, stderr, exitCode>>

\* main: an error of run is printed on standard error and the exit code is 1.
MainExit ==
    /\ pc = "main"
    /\ IF err # Nil
       THEN /\ stderr' = Append(stderr, err)
            /\ exitCode' = 1
       ELSE /\ exitCode' = 0
            /\ UNCHANGED stderr
    /\ pc' = "exited"
    /\ UNCHANGED <<argv, argi, cfg, volumes, runtime, source, vi, mapping, genOut,
                   genErr, content, outputs, oi, wi, deferred, nextFd, err, io, dest>>

Next ==
    \/ FlagParse
    \/ DefaultOuts
    \/ Lookup
    \/ OpenInputStep
    \/ GenerateRead
    \/ CollectPath
    \/ GenerateRender
    \/ GenerateCheck
    \/ OpenOutputStep
    \/ OpenOutputsDone
    \/ WriteStep
    \/ WriteDone
    \/ Return
    \/ MainExit

Spec == Init /\ [][Next]_vars

-----------------------------------------------------------------------------
(* Properties.                                                             *)

Returning == pc \in {"return", "main", "exited"}
Returned == pc \in {"main", "exited"}

Idx(op) == {i \in 1..Len(io) : io[i].op = op}

IsWriteEvent(e) == e.op = "write"
IsOpenOutEvent(e) == e.op = "open_out"
IsStatEvent(e) == e.op = "stat"
IsCloseEvent(e) == e.op = "close"
IsOpenOk(e) == e.op \in {"open_in", "open_out"} /\ e.ok

Writes == SelectSeq(io, IsWriteEvent)
OpenOuts == SelectSeq(io, IsOpenOutEvent)

\* The list a count of copies of text makes on a stream.
RECURSIVE Copies(_, _)
Copies(text, n) == IF n = 0 THEN <<>> ELSE text \o Copies(text, n - 1)

Occurrences(q, x) == Cardinality({i \in 1..Len(q) : q[i] = x})

\* The files a volume path holds: (name, content) of the path itself when it is
\* a file, of its direct regular-file children when it is a directory.
FilesOf(p) ==
    IF VolumeKind(p) = "file" THEN {<<BaseName(p), FileData(p)>>}
    ELSE {<<DirEntries(p)[i].name, DirEntries(p)[i].data>> :
             i \in {j \in 1..Len(DirEntries(p)) : DirEntries(p)[j].type = "file"}}

NamesOf(p) == {f[1] : f \in FilesOf(p)}

\* The mapping the first k volume paths define under last-writer-wins.
MappingOf(k) ==
    LET names == UNION {NamesOf(volumes[i]) : i \in 1..k}
        last(n) == CHOOSE i \in 1..k :
                      /\ n \in NamesOf(volumes[i])
                      /\ \A j \in (i + 1)..k : n \notin NamesOf(volumes[j])
    IN  [n \in names |-> (CHOOSE f \in FilesOf(volumes[last(n)]) : f[1] = n)[2]]

\* C1: when the interpreter name is neither "plain" nor "jsonnet", run fails
\* with the 'unsupported interpreter' error and no file operation of any kind
\* has been attempted: nothing opened, stat'ed, read, written or closed, and
\* every destination holds what it held before.
C1_UnknownInterpreterNoIO ==
    (pc \notin {"parse", "lookup"} /\ cfg.InterpreterName \notin {"plain", "jsonnet"})
        => /\ Returning
           /\ err = Error("unsupported interpreter", cfg.InterpreterName)
           /\ io = <<>>
           /\ dest = InitialDest
           /\ pc = "exited" => exitCode = 1

C1_Witness ==
    /\ pc = "exited"
    /\ cfg.InterpreterName = "yaml"
    /\ err.kind = "unsupported interpreter"
    /\ io = <<>>

\* C2: if generation fails (a volume path is missing, or the template does not
\* render), run returns an error and no output destination has been opened,
\* truncated or written; an output is opened only after Generate has returned
\* without error.
C2_NoOutputOnGenerationFailure ==
    /\ genErr # Nil =>
          /\ Idx("open_out") = {} /\ Idx("write") = {}
          /\ dest = InitialDest
          /\ Returning => /\ err = Error("can't generate content", genErr.arg)
                          /\ genErr.kind = "collect" => VolumeKind(err.arg) = "missing"
          /\ pc = "exited" => exitCode = 1
    /\ (Idx("open_out") # {} \/ Idx("write") # {}) =>
          /\ genErr = Nil
          /\ pc \in {"openOutputs", "write", "return", "main", "exited"}

C2_Witness ==
    /\ pc = "exited"
    /\ genErr = Error("collect", "/nope")
    /\ cfg.Outs = <<"/out/a">>
    /\ dest["/out/a"] = <<"stale">>

\* C3: when run returns nil, every entry of the output list has had exactly one
\* write, through its own handle, of the full rendered text, the writes are in
\* list order and all carry the same text; an entry given twice is written once
\* per occurrence.  When no write fell short, every file of the list holds the
\* text and standard output holds one copy per occurrence of "-".
C3_FanoutWritesEachEntryOnce ==
    (Returning /\ err = Nil) =>
        /\ Len(Writes) = Len(cfg.Outs)
        /\ content = genOut
        /\ \A i \in 1..Len(Writes) :
              /\ Writes[i].path = cfg.Outs[i]
              /\ Writes[i].fd = outputs[i].fd
              /\ Writes[i].data = content
              /\ Writes[i].ok => Writes[i].n = Len(content)
        /\ (\A i \in 1..Len(Writes) : Writes[i].ok) =>
              \A i \in 1..Len(cfg.Outs) :
                 dest[cfg.Outs[i]] =
                    IF cfg.Outs[i] = "-" THEN Copies(content, Occurrences(cfg.Outs, "-"))
                    ELSE content

C3_Witness ==
    /\ pc = "exited"
    /\ err = Nil
    /\ cfg.Outs = <<"-", "-">>
    /\ Len(Writes) = 2
    /\ dest["-"] = <<"Hello ", "World", "Hello ", "World">>

\* C4: the process exits with code 0 and prints nothing when nothing failed,
\* and exits with code 1 after printing an error when anything failed: unknown
\* interpreter, input open, collection, render, output open or output write.
C4_ExitCodeReportsEveryFailure ==
    pc = "exited" =>
        LET failed == \/ cfg.InterpreterName \notin {"plain", "jsonnet"}
                      \/ \E i \in 1..Len(io) :
                            io[i].op \in {"open_in", "open_out", "write"} /\ ~io[i].ok
                      \/ genErr # Nil
        IN  /\ failed => exitCode = 1 /\ Len(stderr) = 1
            /\ ~failed => exitCode = 0 /\ stderr = <<>>

\* C5: every output is opened before any write begins, run returns nil only if
\* every open succeeded, and if the open of the k-th output fails run returns
\* the error naming that path with no write made to any destination: the
\* outputs opened before it are empty, the others hold what they held.
C5_AllOpenedBeforeAnyWrite ==
    /\ Idx("write") # {} =>
          /\ Len(OpenOuts) = Len(cfg.Outs)
          /\ \A i \in Idx("open_out") : io[i].ok /\ \A j \in Idx("write") : i < j
    /\ (Returning /\ err = Nil) =>
          /\ Len(OpenOuts) = Len(cfg.Outs)
          /\ \A i \in 1..Len(OpenOuts) : OpenOuts[i].ok /\ OpenOuts[i].path = cfg.Outs[i]
    /\ \A i \in Idx("open_out") : ~io[i].ok =>
          /\ Returning
          /\ err = Error("can't open output file", io[i].path)
          /\ io[i].path = cfg.Outs[Len(OpenOuts)]
          /\ Idx("write") = {}
          /\ \A p \in OutputPaths :
                dest[p] = IF \E j \in 1..(i - 1) : io[j].op = "open_out" /\ io[j].path = p
                                                    /\ p # "-"
                          THEN <<>> ELSE InitialDest[p]

C5_Witness ==
    /\ pc = "exited"
    /\ cfg.Outs = <<"/out/a", "/ro/b">>
    /\ err = Error("can't open output file", "/ro/b")
    /\ dest["/out/a"] = <<>>

\* C6: once every output is opened, each one gets its write attempt whatever
\* the outcome of the other writes: a failed write ends neither the loop nor
\* the run, which goes on to the next output and returns nil.
C6_WriteFailureDoesNotStopFanout ==
    /\ pc = "write" => Len(Writes) = wi - 1
    /\ (Returning /\ Len(OpenOuts) = Len(cfg.Outs) /\ \A i \in 1..Len(OpenOuts) : OpenOuts[i].ok)
          => /\ Len(Writes) = Len(outputs)
             /\ \A k \in 1..Len(outputs) : Writes[k].fd = outputs[k].fd
             /\ err = Nil

C6_Witness ==
    /\ pc = "exited"
    /\ Len(Writes) = 2
    /\ ~Writes[1].ok
    /\ Writes[2].ok
    /\ Writes[2].path = "/out/a"

\* C7: when run has returned, on every path, each handle that was opened has
\* been closed after it was opened, as many closes were made as opens
\* succeeded, no close was made before run was over (so none before a write),
\* and only handles that were opened are closed.
C7_OpenedHandlesClosedAtReturn ==
    /\ Returned =>
          /\ \A i \in 1..Len(io) : IsOpenOk(io[i]) =>
                \E j \in (i + 1)..Len(io) :
                   io[j].op = "close" /\ io[j].fd = io[i].fd /\ io[j].path = io[i].path
          /\ Cardinality(Idx("close")) = Cardinality({i \in 1..Len(io) : IsOpenOk(io[i])})
    /\ Idx("close") # {} => Returned
    /\ \A j \in Idx("close") :
          /\ \A i \in 1..Len(io) : io[i].op # "close" => i < j
          /\ \E i \in 1..(j - 1) : IsOpenOk(io[i]) /\ io[i].fd = io[j].fd

C7_Witness ==
    /\ pc = "exited"
    /\ err.kind = "can't open output file"
    /\ cfg.In = "/t/hello.tpl"
    /\ cfg.Outs = <<"/out/a", "/ro/b">>
    /\ Cardinality(Idx("close")) = 2

\* C8: the mapping built from accessible volume paths has exactly one entry per
\* file name met (the path itself when a file, the direct regular files of a
\* directory), and a name met under two paths has the content given by the
\* later path; the interpreter is handed that mapping.
C8_MappingLastWriterWins ==
    pc \in {"collect", "generated"} =>
        /\ mapping = MappingOf(vi - 1)
        /\ \A i \in 1..(vi - 1) : VolumeKind(volumes[i]) # "missing"
        /\ (pc = "generated" /\ genErr.kind # "collect") =>
              /\ vi - 1 = Len(volumes)
              /\ genOut = Render(runtime, source, MappingOf(Len(volumes))).text

C8_Witness ==
    /\ pc = "generated"
    /\ volumes = <<"/cm", "/sec">>
    /\ DOMAIN mapping = {"NAME", "PASS", "PORT"}
    /\ mapping["PORT"] = "9090"
    /\ genOut = <<"{port: ", "\"9090\"", "}">>

OutFlagValues(k) ==
    LET IsOut(a) == a.flag = "out"
        fs == SelectSeq(SubSeq(argv, 1, k), IsOut)
    IN  [i \in 1..Len(fs) |-> fs[i].value]

\* C9: the output list holds the values of the -out flags in the order given,
\* duplicates kept; with no -out flag it is the single entry "-", and with one
\* or more "-" is not added; run never gets an empty list.
C9_OutputListFromFlags ==
    /\ pc = "parse" => cfg.Outs = OutFlagValues(argi - 1)
    /\ pc # "parse" =>
          /\ cfg.Outs = IF OutFlagValues(Len(argv)) = <<>> THEN <<"-">>
                        ELSE OutFlagValues(Len(argv))
          /\ Len(cfg.Outs) >= 1

C9_Witness ==
    /\ pc = "lookup"
    /\ Len(argv) = 2
    /\ cfg.Outs = <<"/out/a", "-">>

StageOf(e) ==
    CASE e.op = "open_in"            -> 1
      [] e.op = "read" /\ e.fd >= 0  -> 2
      [] e.op \in {"stat", "read"}   -> 3
      [] e.op = "open_out"           -> 4
      [] e.op = "write"              -> 5
      [] OTHER                       -> 6

\* The error of the earliest stage that fails, from the command line and the
\* files alone.
FirstFailure ==
    LET missing == {i \in 1..Len(volumes) : VolumeKind(volumes[i]) = "missing"}
        closed == {i \in 1..Len(cfg.Outs) : ~OutputOpenable(cfg.Outs[i])}
        first(S) == CHOOSE i \in S : \A j \in S : i <= j
        r == Render(cfg.InterpreterName, InputContent(cfg.In), MappingOf(Len(volumes)))
    IN  IF cfg.InterpreterName \notin {"plain", "jsonnet"}
        THEN [stage |-> 0, err |-> Error("unsupported interpreter", cfg.InterpreterName)]
        ELSE IF ~InputExists(cfg.In)
        THEN [stage |-> 1, err |-> Error("can't open input file", cfg.In)]
        ELSE IF missing # {}
        THEN [stage |-> 3, err |-> Error("can't generate content", volumes[first(missing)])]
        ELSE IF ~r.ok
        THEN [stage |-> 3, err |-> Error("can't generate content", r.why)]
        ELSE IF closed # {}
        THEN [stage |-> 4, err |-> Error("can't open output file", cfg.Outs[first(closed)])]
        ELSE [stage |-> 5, err |-> Nil]

\* C10: the file operations of run come in stage order (input open, input
\* read, volume stats and reads in list order, output opens in list order,
\* writes, closes); run returns the error of the earliest stage that fails,
\* whatever later stages would have failed too, and no operation of a later
\* stage has been made.
C10_StagesInOrderFirstFailureWins ==
    /\ \A i, j \in 1..Len(io) : i < j => StageOf(io[i]) <= StageOf(io[j])
    /\ LET stats == SelectSeq(io, IsStatEvent)
       IN  /\ Len(stats) <= Len(volumes)
           /\ \A k \in 1..Len(stats) : stats[k].path = volumes[k]
    /\ Len(OpenOuts) <= Len(cfg.Outs)
    /\ \A k \in 1..Len(OpenOuts) : OpenOuts[k].path = cfg.Outs[k]
    /\ Returned =>
          /\ err = FirstFailure.err
          /\ \A i \in 1..Len(io) :
                io[i].op # "close" => StageOf(io[i]) <= FirstFailure.stage

C10_Witness ==
    /\ pc = "exited"
    /\ cfg.InterpreterName = "yaml"
    /\ cfg.In = "/t/none"
    /\ volumes = <<"/nope">>
    /\ cfg.Outs = <<"/ro/b">>
    /\ stderr = <<Error("unsupported interpreter", "yaml")>>

====
